---- MODULE Spec2Model ----
(***************************************************************************)
(* Model of the snetdev reachability prober (ping.go, main.go, ipfile.go). *)
(*                                                                         *)
(* The entry points are modelled each with its own specification:          *)
(*   SpecSession   PingIPsWithConfig: the launching loop, the semaphore,   *)
(*                 one goroutine per list element running pingWithRetry,   *)
(*                 the closer goroutine and the collector loop;            *)
(*   SpecCampaign  a direct call of pingWithRetry followed by a re-run on  *)
(*                 the recorded outcomes, and evaluatePingSequence applied *)
(*                 twice to one recorded sequence;                         *)
(*   SpecClassify  parsePingOutputSuccess and the ok-decision of one       *)
(*                 attempt on tokenised diagnostic text;                   *)
(*   SpecAgree     pingWithRetry and evaluatePingSequence driven by one    *)
(*                 outcome sequence;                                       *)
(*   SpecExpand    parseCIDR and parseIPRange on one line;                 *)
(*   SpecFile      ParseIPFile on the lines of a file.                     *)
(*                                                                         *)
(* Addresses of the expander are NumBytes bytes of ByteBits bits each (8   *)
(* in the program) and the guard on the number of addresses of one line is *)
(* ExpansionGuard (1000000 in the program): like the program's guard it is *)
(* no power of two and lies below the number of all addresses.             *)
(***************************************************************************)
EXTENDS Integers, Sequences, FiniteSets, TLC

\* ------------------------------------------------------------------ bounds
MaxIPs == 2
MaxConcurrency == 2
MaxAttemptsBound == 5
MaxNeed == 2
MaxStop == 3
MaxTextLen == 3
ByteBits == 1
ExpansionGuard == 5
MaxLines == 2

\* ------------------------------------------------------- program constants
MaxInt32 == 2147483647
NumBytes == 4

Addresses == {"a", "b"}


VARIABLES
    call,         \* which entry point this run exercises
    ips,          \* PingIPsWithConfig: the input list
    concurrency,  \* PingIPsWithConfig: the concurrency argument
    cfg,          \* the PingConfig in force
    mainPc,       \* position of the goroutine running PingIPsWithConfig
    idx,          \* index of the range loop over ips (1-based)
    sem,          \* number of elements buffered in the semaphore channel
    semClosed,    \* the deferred close(semaphore) has run
    wg,           \* the WaitGroup counter
    resultChan,   \* elements buffered in resultChan
    chanClosed,   \* close(resultChan) has run
    closerPc,     \* position of the goroutine that waits and closes
    taskPc,       \* position of each launched goroutine
    camp,         \* locals of each pingWithRetry activation
    successIPs,   \* collector's slice
    failedIPs,    \* collector's slice
    ret,          \* what PingIPsWithConfig returned
    panicked,     \* a goroutine panicked (send on closed channel, negative wg)
    run,          \* campaign entry point: 1 = live run, 2 = re-run on the record
    live,         \* campaign entry point: what the live run recorded
    results,      \* evaluatePingSequence: the results argument
    ev,           \* evaluatePingSequence: locals of the activation
    evFirst,      \* evaluatePingSequence: what the first evaluation returned
    signal,       \* classification: err == nil of cmd.CombinedOutput
    output,       \* classification: the text of the probe, as tokens
    classified,   \* classification: the attempt's ok, once decided
    killed,       \* classification: the probe was killed by the attempt's timeout
    line,         \* expansion: the line handed to parseCIDR / parseIPRange
    ex,           \* expansion: locals of the parseCIDR / parseIPRange activation
    file,         \* ParseIPFile: the trimmed lines of the file
    pf            \* ParseIPFile: locals of the activation

sessVars == <<ips, concurrency, mainPc, idx, sem, semClosed, wg, resultChan,
              chanClosed, closerPc, taskPc, successIPs, failedIPs, ret, panicked>>
campVars == <<camp, run, live>>
evalVars == <<results, ev, evFirst>>
clsVars == <<signal, output, classified, killed>>
expVars == <<line, ex, file, pf>>
vars == <<call, cfg, sessVars, campVars, evalVars, clsVars, expVars>>

\* ------------------------------------------------------------------ helpers
RECURSIVE SeqsUpTo(_, _)
SeqsUpTo(S, n) ==
    IF n = 0 THEN {<<>>}
    ELSE LET shorter == SeqsUpTo(S, n - 1)
         IN shorter \cup {Append(s, x) : s \in {t \in shorter : Len(t) = n - 1}, x \in S}

Range(s) == {s[k] : k \in 1..Len(s)}

IsPrefix(s, t) == Len(s) <= Len(t) /\ \A k \in 1..Len(s) : s[k] = t[k]

\* A Go slice: nil until the first append.
NilSlice == [isNil |-> TRUE, elems |-> <<>>]
EmptySlice == [isNil |-> FALSE, elems |-> <<>>]
\* As SliceAppend, storing into the last place instead of growing the slice.
MutSliceAppend(s, x) == [isNil |-> FALSE, elems |-> <<x>>]

SliceAppend(s, x) == [isNil |-> FALSE, elems |-> Append(s.elems, x)]

\* -------------------------------------------------------- classification
\* Diagnostic text is a sequence of whitespace-separated tokens.
CountTokens == {"0", "4"}
PercentTokens == {"0%", "100%", "100.0%"}
IndicatorTokens == {"bytes from", "ttl=54", "time=1ms"}
Tokens == CountTokens \cup PercentTokens
          \cup {"received", "Received", "packets", "packet loss", "ttl=54", "x"}

\* strings.ToLower, token by token.
ToLowerToken(tok) == IF tok = "Received" THEN "received" ELSE tok
ToLower(text) == [k \in 1..Len(text) |-> ToLowerToken(text[k])]

\* What (\d+) captures when \b(\d+)% matches inside a percentage token: the
\* digits directly before the '%' that start at a word boundary.
PercentCapture(tok) ==
    CASE tok = "0%" -> "0"
      [] tok = "100%" -> "100"
      [] tok = "100.0%" -> "0"
      [] OTHER -> ""

\* Positions where each regular expression matches (the capture's token).
ReceivedMatches(low) ==
    {k \in 1..(Len(low) - 1) : low[k] \in CountTokens /\ low[k + 1] = "received"}
PacketsReceivedMatches(low) ==
    {k \in 1..(Len(low) - 2) :
        low[k] \in CountTokens /\ low[k + 1] = "packets" /\ low[k + 2] = "received"}
LossMatches(low) ==
    {k \in 1..(Len(low) - 1) : low[k] \in PercentTokens /\ low[k + 1] = "packet loss"}

\* FindStringSubmatch returns the leftmost match.
Leftmost(S) == CHOOSE k \in S : \A j \in S : k <= j

HasIndicator(low) == \E k \in 1..Len(low) : low[k] \in IndicatorTokens

parsePingOutputSuccess(text) ==
    LET low == ToLower(text)
        rx1 == ReceivedMatches(low)
        rx2 == PacketsReceivedMatches(low)
        rx3 == LossMatches(low)
    IN  IF rx1 # {} /\ low[Leftmost(rx1)] # "0" THEN TRUE
        ELSE IF rx2 # {} /\ low[Leftmost(rx2)] # "0" THEN TRUE
        ELSE IF rx3 # {} /\ PercentCapture(low[Leftmost(rx3)]) = "0" THEN TRUE
        ELSE HasIndicator(low)

\* ok of one attempt: err == nil, or the text says a reply was received.
AttemptOk(errNil, text) == errNil \/ parsePingOutputSuccess(text)

\* What one probe can hand back: (err == nil, killed by the timeout, text).
ProbeOutputs == {<<>>, <<"0", "received">>, <<"4", "received">>, <<"ttl=54">>}
ProbeResults ==
    {r \in [errNil : BOOLEAN, timedOut : BOOLEAN, out : ProbeOutputs] :
        r.timedOut => ~r.errNil}

\* The lists a session is given: every list over Addresses, repeated
\* addresses included, up to the renaming of addresses (the first is "a").
InputLists == {q \in SeqsUpTo(Addresses, MaxIPs) : q = <<>> \/ q[1] = "a"}

\* ------------------------------------------------------------- policies
Policy(ma, sn, cs, iv) ==
    [MaxAttempts |-> ma, SuccessNeed |-> sn, ConsecutiveFailStop |-> cs,
     AttemptInterval |-> iv]

\* Policies of a direct campaign: every field also takes the values the code
\* normalises (zero and negative), and the fail stop also the "disabled" value.
CampaignPolicies ==
    {Policy(ma, sn, cs, iv) :
        ma \in -1..MaxAttemptsBound, sn \in -1..MaxNeed,
        cs \in (-1..MaxStop) \cup {MaxInt32}, iv \in {0, 1}}

\* evaluatePingSequence has no interval parameter.
ReplayPolicies == {p \in CampaignPolicies : p.AttemptInterval = 0}

\* Policies of a session: no attempt at all, and two paced attempts with both
\* early exits possible.
SessionPolicies == {Policy(0, 1, 1, 0), Policy(2, 2, 2, 1)}

\* The policy PingIPs passes.
defaultPingConfig == Policy(5, 2, 3, 1)

\* --------------------------------------------------------- pingWithRetry
CampIds == 1..MaxIPs

CampIdle ==
    [pc |-> "idle", maxRetries |-> 0, successNeed |-> 0, consecFailStop |-> 0,
     interval |-> 0, successes |-> 0, consecFails |-> 0, i |-> 0,
     result |-> FALSE, attempts |-> 0, sleeps |-> 0, hist |-> <<>>]

CampEntry == [CampIdle EXCEPT !.pc = "entry"]

\* As NormalizeSuccessNeed, leaving the threshold as it was given.
MutNormalizeSuccessNeed(n) == n

\* Lines 142-144.
NormalizeSuccessNeed(n) == IF n <= 0 THEN 1 ELSE n

NormalizeFailStop(n) == IF n <= 0 THEN MaxInt32 ELSE n

Return(st, v) == [st EXCEPT !.pc = "ret", !.result = v]

\* As EnterCampaign, with maxRetries read as retries after the first attempt.
MutEnterCampaign(p) ==
    LET st == [CampIdle EXCEPT !.maxRetries = p.MaxAttempts + 1]
    IN  IF p.MaxAttempts <= 0
        THEN Return(st, FALSE)
        ELSE [st EXCEPT !.pc = "loop",
                        !.successNeed = NormalizeSuccessNeed(p.SuccessNeed),
                        !.consecFailStop = NormalizeFailStop(p.ConsecutiveFailStop),
                        !.interval = p.AttemptInterval]

\* Lines 139-150: the guard on maxRetries, the normalisations, the counters.
EnterCampaign(p) ==
    LET st == [CampIdle EXCEPT !.maxRetries = p.MaxAttempts]
    IN  IF p.MaxAttempts <= 0
        THEN Return(st, FALSE)
        ELSE [st EXCEPT !.pc = "loop",
                        !.successNeed = NormalizeSuccessNeed(p.SuccessNeed),
                        !.consecFailStop = NormalizeFailStop(p.ConsecutiveFailStop),
                        !.interval = p.AttemptInterval]

\* Line 188: the success threshold is met.
MutSuccessReached(st) == st.successes > st.successNeed

SuccessReached(st) == st.successes >= st.successNeed

\* Line 193: the run of consecutive failures is long enough to give up.
MutFailStopReached(st) == st.consecFails > st.consecFailStop

FailStopReached(st) == st.consecFails >= st.consecFailStop

\* Line 200: the verdict once the last permitted attempt is used up.
MutExhaustionVerdict(st) == st.successes > 0

ExhaustionVerdict(st) == st.successes >= st.successNeed

\* Lines 185-209: the body of one iteration after ok is known. attempts,
\* sleeps and hist count the probes run, the sleeps taken and the outcomes.
AttemptStep(st, ok) ==
    LET counted == IF ok
                   THEN [st EXCEPT !.successes = @ + 1, !.consecFails = 0]
                   ELSE [st EXCEPT !.consecFails = @ + 1]
        s == [counted EXCEPT !.attempts = @ + 1, !.hist = Append(@, ok)]
    IN  IF ok /\ SuccessReached(s) THEN Return(s, TRUE)
        ELSE IF ~ok /\ FailStopReached(s) THEN Return(s, FALSE)
        ELSE IF s.i = s.maxRetries - 1 THEN Return(s, ExhaustionVerdict(s))
        ELSE IF s.interval > 0 /\ s.i < s.maxRetries - 1 THEN [s EXCEPT !.pc = "sleep"]
        ELSE [s EXCEPT !.i = @ + 1]

\* The outcomes the probe of campaign c can yield now: anything on a live run,
\* the recorded outcome when the campaign is re-run on its record, the next
\* element of the given sequence when the campaign is driven by one.
Outcomes(c) ==
    IF call = "campaign" /\ run = 2 /\ camp[c].attempts < Len(live.hist)
    THEN {live.hist[camp[c].attempts + 1]}
    ELSE IF call = "agree" /\ camp[c].attempts < Len(results)
    THEN {results[camp[c].attempts + 1]}
    ELSE BOOLEAN

\* As PingEntry, with the success counter kept in storage that outlives the
\* activation and is not cleared on entry.
MutPingEntry(c) ==
    /\ ~panicked
    /\ camp[c].pc = "entry"
    /\ camp' = [camp EXCEPT
                   ![c] = [EnterCampaign(cfg) EXCEPT !.successes = camp[c].successes]]
    /\ UNCHANGED <<call, cfg, sessVars, run, live, evalVars, clsVars, expVars>>

\* The activation starts: its locals are initialised whatever the frame held.
PingEntry(c) ==
    /\ ~panicked
    /\ camp[c].pc = "entry"
    /\ camp' = [camp EXCEPT ![c] = EnterCampaign(cfg)]
    /\ UNCHANGED <<call, cfg, sessVars, run, live, evalVars, clsVars, expVars>>

\* One iteration of the for loop: the loop test, the probe, the decision.
PingAttempt(c) ==
    /\ ~panicked
    /\ camp[c].pc = "loop"
    /\ IF camp[c].i < camp[c].maxRetries
       THEN \E r \in ProbeResults :
                /\ AttemptOk(r.errNil, r.out) \in Outcomes(c)
                /\ camp' = [camp EXCEPT
                               ![c] = AttemptStep(@, AttemptOk(r.errNil, r.out))]
       ELSE camp' = [camp EXCEPT
                        ![c] = Return(@, ExhaustionVerdict(@))]
    /\ UNCHANGED <<call, cfg, sessVars, run, live, evalVars, clsVars, expVars>>

\* time.Sleep(interval), then i++.
PingSleep(c) ==
    /\ ~panicked
    /\ camp[c].pc = "sleep"
    /\ camp' = [camp EXCEPT ![c] = [@ EXCEPT !.pc = "loop", !.sleeps = @ + 1,
                                             !.i = @ + 1]]
    /\ UNCHANGED <<call, cfg, sessVars, run, live, evalVars, clsVars, expVars>>

\* The recorded outcome of a finished activation.
Record(st) ==
    [hist |-> st.hist, result |-> st.result, attempts |-> st.attempts,
     sleeps |-> st.sleeps]

NoRecord == [hist |-> <<>>, result |-> FALSE, attempts |-> 0, sleeps |-> 0]

\* The campaign is run again, its probe replaying the recorded outcomes.
Rerun ==
    /\ call = "campaign"
    /\ run = 1
    /\ camp[1].pc = "ret"
    /\ live' = Record(camp[1])
    /\ run' = 2
    /\ camp' = [camp EXCEPT ![1] = [@ EXCEPT !.pc = "entry"]]
    /\ UNCHANGED <<call, cfg, sessVars, evalVars, clsVars, expVars>>

\* -------------------------------------------------- evaluatePingSequence
EvalStart ==
    [pc |-> "range", k |-> 1, successes |-> 0, consecFails |-> 0,
     attempts |-> 0, result |-> FALSE]

EvalIdle == [EvalStart EXCEPT !.pc = "idle"]

\* Lines 110-125: one iteration of the range loop on element r.
EvalStep(st, r, maxAttempts, successNeed, consecutiveFailStop) ==
    IF st.attempts >= maxAttempts
    THEN [st EXCEPT !.pc = "ret", !.result = st.successes >= successNeed]
    ELSE LET a == [st EXCEPT !.attempts = @ + 1, !.k = @ + 1]
         IN  IF r
             THEN LET s == [a EXCEPT !.successes = @ + 1, !.consecFails = 0]
                  IN  IF s.successes >= successNeed
                      THEN [s EXCEPT !.pc = "ret", !.result = TRUE]
                      ELSE s
             ELSE LET s == [a EXCEPT !.consecFails = @ + 1]
                  IN  IF s.consecFails >= consecutiveFailStop
                      THEN [s EXCEPT !.pc = "ret", !.result = FALSE]
                      ELSE s

EvalIterate ==
    /\ call = "replay" \/ (call = "agree" /\ camp[1].pc = "ret")
    /\ ev.pc = "range"
    /\ ev' = IF ev.k > Len(results)
             THEN [ev EXCEPT !.pc = "ret", !.result = ev.successes >= cfg.SuccessNeed]
             ELSE EvalStep(ev, results[ev.k], cfg.MaxAttempts, cfg.SuccessNeed,
                           cfg.ConsecutiveFailStop)
    /\ UNCHANGED <<call, cfg, sessVars, campVars, results, evFirst, clsVars, expVars>>

\* The same recorded sequence is evaluated a second time.
EvalAgain ==
    /\ call = "replay"
    /\ run = 1
    /\ ev.pc = "ret"
    /\ evFirst' = ev
    /\ ev' = EvalStart
    /\ run' = 2
    /\ UNCHANGED <<call, cfg, sessVars, camp, live, results, clsVars, expVars>>

\* ----------------------------------------------------- PingIPsWithConfig
TaskIds == 1..Len(ips)

\* make(chan struct{}, concurrency) and make(chan ipResult, len(ips)).
MutSemaphoreCap == concurrency + 1

SemaphoreCap == concurrency

ResultChanCap == Len(ips)

\* Line 46: the concurrency argument is rejected.
MutInvalidConcurrency == concurrency < 0

InvalidConcurrency == concurrency <= 0

\* Lines 46-51: the two early returns.
MainEntry ==
    /\ call = "session" /\ ~panicked
    /\ mainPc = "entry"
    /\ IF InvalidConcurrency
       THEN /\ ret' = [successIPs |-> NilSlice, failedIPs |-> NilSlice, err |-> TRUE]
            /\ mainPc' = "returned"
       ELSE IF Len(ips) = 0
       THEN /\ ret' = [successIPs |-> EmptySlice, failedIPs |-> EmptySlice,
                       err |-> FALSE]
            /\ mainPc' = "returned"
       ELSE /\ mainPc' = "range"
            /\ UNCHANGED ret
    /\ UNCHANGED <<call, cfg, ips, concurrency, idx, sem, semClosed, wg, resultChan,
                   chanClosed, closerPc, taskPc, successIPs, failedIPs, panicked,
                   campVars, evalVars, clsVars, expVars>>

\* Line 62-63: the range test and wg.Add(1); past the last element, line 78:
\* the closer goroutine is started and the collector loop begins.
MainRange ==
    /\ call = "session" /\ ~panicked
    /\ mainPc = "range"
    /\ IF idx <= Len(ips)
       THEN /\ wg' = wg + 1
            /\ mainPc' = "acquire"
            /\ UNCHANGED closerPc
       ELSE /\ closerPc' = "wait"
            /\ mainPc' = "collect"
            /\ UNCHANGED wg
    /\ UNCHANGED <<call, cfg, ips, concurrency, idx, sem, semClosed, resultChan,
                   chanClosed, taskPc, successIPs, failedIPs, ret, panicked,
                   campVars, evalVars, clsVars, expVars>>

\* Lines 65-74: semaphore <- struct{}{} blocks while the buffer is full; then
\* the goroutine of this element is started.
MainAcquire ==
    /\ call = "session" /\ ~panicked
    /\ mainPc = "acquire"
    /\ sem < SemaphoreCap
    /\ sem' = sem + 1
    /\ taskPc' = [taskPc EXCEPT ![idx] = "start"]
    /\ idx' = idx + 1
    /\ mainPc' = "range"
    /\ UNCHANGED <<call, cfg, ips, concurrency, semClosed, wg, resultChan,
                   chanClosed, closerPc, successIPs, failedIPs, ret, panicked,
                   campVars, evalVars, clsVars, expVars>>

\* Line 72: the goroutine calls pingRunner.
TaskCall(t) ==
    /\ call = "session" /\ ~panicked
    /\ taskPc[t] = "start"
    /\ taskPc' = [taskPc EXCEPT ![t] = "running"]
    /\ camp' = [camp EXCEPT ![t] = CampEntry]
    /\ UNCHANGED <<call, cfg, ips, concurrency, mainPc, idx, sem, semClosed, wg,
                   resultChan, chanClosed, closerPc, successIPs, failedIPs, ret,
                   panicked, run, live, evalVars, clsVars, expVars>>

\* Line 73: pingRunner has returned; the verdict is sent. A send on a closed
\* channel panics; a send on a full buffer blocks.
TaskSend(t) ==
    /\ call = "session" /\ ~panicked
    /\ taskPc[t] = "running"
    /\ camp[t].pc = "ret"
    /\ IF chanClosed
       THEN /\ panicked' = TRUE
            /\ UNCHANGED <<resultChan, taskPc, camp>>
       ELSE /\ Len(resultChan) < ResultChanCap
            /\ resultChan' = Append(resultChan,
                                    [ip |-> ips[t], success |-> camp[t].result])
            /\ taskPc' = [taskPc EXCEPT ![t] = "release"]
            /\ camp' = [camp EXCEPT ![t] = CampIdle]
            /\ UNCHANGED panicked
    /\ UNCHANGED <<call, cfg, ips, concurrency, mainPc, idx, sem, semClosed, wg,
                   chanClosed, closerPc, successIPs, failedIPs, ret, run, live,
                   evalVars, clsVars, expVars>>

\* Line 69, the second defer (it runs first): <-semaphore. A receive from a
\* closed, empty channel returns at once.
TaskRelease(t) ==
    /\ call = "session" /\ ~panicked
    /\ taskPc[t] = "release"
    /\ sem > 0 \/ semClosed
    /\ sem' = IF sem > 0 THEN sem - 1 ELSE sem
    /\ taskPc' = [taskPc EXCEPT ![t] = "wgdone"]
    /\ UNCHANGED <<call, cfg, ips, concurrency, mainPc, idx, semClosed, wg,
                   resultChan, chanClosed, closerPc, successIPs, failedIPs, ret,
                   panicked, campVars, evalVars, clsVars, expVars>>

\* Line 68, the first defer (it runs last): wg.Done(). A negative counter panics.
TaskDone(t) ==
    /\ call = "session" /\ ~panicked
    /\ taskPc[t] = "wgdone"
    /\ wg' = wg - 1
    /\ panicked' = (wg - 1 < 0)
    /\ taskPc' = [taskPc EXCEPT ![t] = "done"]
    /\ UNCHANGED <<call, cfg, ips, concurrency, mainPc, idx, sem, semClosed,
                   resultChan, chanClosed, closerPc, successIPs, failedIPs, ret,
                   campVars, evalVars, clsVars, expVars>>

\* As CloserWait, when the counter may still be zero because wg.Add has not
\* been counted before the wait (it returns without waiting for the tasks).
MutCloserWait ==
    /\ call = "session" /\ ~panicked
    /\ closerPc = "wait"
    /\ closerPc' = "close"
    /\ UNCHANGED <<call, cfg, ips, concurrency, mainPc, idx, sem, semClosed, wg,
                   resultChan, chanClosed, taskPc, successIPs, failedIPs, ret,
                   panicked, campVars, evalVars, clsVars, expVars>>

\* Line 79: wg.Wait() returns once the counter is zero.
CloserWait ==
    /\ call = "session" /\ ~panicked
    /\ closerPc = "wait"
    /\ wg = 0
    /\ closerPc' = "close"
    /\ UNCHANGED <<call, cfg, ips, concurrency, mainPc, idx, sem, semClosed, wg,
                   resultChan, chanClosed, taskPc, successIPs, failedIPs, ret,
                   panicked, campVars, evalVars, clsVars, expVars>>

\* Line 80: close(resultChan).
CloserClose ==
    /\ call = "session" /\ ~panicked
    /\ closerPc = "close"
    /\ chanClosed' = TRUE
    /\ closerPc' = "done"
    /\ UNCHANGED <<call, cfg, ips, concurrency, mainPc, idx, sem, semClosed, wg,
                   resultChan, taskPc, successIPs, failedIPs, ret, panicked,
                   campVars, evalVars, clsVars, expVars>>

\* Lines 85-93: one receive of the collector loop; once the channel is closed
\* and drained the loop ends, the function returns and the deferred
\* close(semaphore) runs.
MainCollect ==
    /\ call = "session" /\ ~panicked
    /\ mainPc = "collect"
    /\ IF resultChan # <<>>
       THEN /\ resultChan' = Tail(resultChan)
            /\ IF Head(resultChan).success
               THEN /\ successIPs' = SliceAppend(successIPs, Head(resultChan).ip)
                    /\ UNCHANGED failedIPs
               ELSE /\ failedIPs' = SliceAppend(failedIPs, Head(resultChan).ip)
                    /\ UNCHANGED successIPs
            /\ UNCHANGED <<mainPc, ret, semClosed>>
       ELSE /\ chanClosed
            /\ ret' = [successIPs |-> successIPs, failedIPs |-> failedIPs,
                       err |-> FALSE]
            /\ semClosed' = TRUE
            /\ mainPc' = "returned"
            /\ UNCHANGED <<resultChan, successIPs, failedIPs>>
    /\ UNCHANGED <<call, cfg, ips, concurrency, idx, sem, wg, chanClosed, closerPc,
                   taskPc, panicked, campVars, evalVars, clsVars, expVars>>

\* ------------------------------------------------- one attempt's ok decision
\* Lines 178-183 on one (err, output) pair.
ClassifyAttempt ==
    /\ call = "classify"
    /\ classified = "pending"
    /\ classified' = IF AttemptOk(signal, output) THEN "ok" ELSE "fail"
    /\ UNCHANGED <<call, cfg, sessVars, campVars, evalVars, signal, output, killed,
                   expVars>>

\* ------------------------------------------------- addresses (main.go)
RECURSIVE Pow2(_)
Pow2(n) == IF n <= 0 THEN 1 ELSE 2 * Pow2(n - 1)

ByteMod == Pow2(ByteBits)

AddrBits == NumBytes * ByteBits

\* An IPv4 address as To4() gives it: NumBytes bytes, the most significant first.
Addrs == [1..NumBytes -> 0..(ByteMod - 1)]

ZeroAddr == [k \in 1..NumBytes |-> 0]

\* Lines 86-87: the bytes shifted and or-ed into one unsigned integer.
RECURSIVE ToUintFrom(_, _)
ToUintFrom(b, k) == IF k = 0 THEN 0 ELSE ToUintFrom(b, k - 1) * ByteMod + b[k]

ToUint(b) == ToUintFrom(b, NumBytes)

\* Lines 50-57: incIP, from the last byte, carrying while a byte wraps to 0.
RECURSIVE IncFrom(_, _)
IncFrom(ip, k) ==
    IF k = 0 THEN ip
    ELSE LET v == (ip[k] + 1) % ByteMod
             next == [ip EXCEPT ![k] = v]
         IN  IF v # 0 THEN next ELSE IncFrom(next, k - 1)

\* As incIP, without the carry into the byte before.
MutIncIP(ip) == [ip EXCEPT ![NumBytes] = (@ + 1) % ByteMod]

incIP(ip) == IncFrom(ip, NumBytes)

\* As compareIP, deciding on the last byte alone.
MutCompareIP(a, b) ==
    IF a[NumBytes] > b[NumBytes] THEN 1
    ELSE IF a[NumBytes] < b[NumBytes] THEN -1 ELSE 0

\* Lines 107-116: compareIP, byte by byte from the first.
RECURSIVE CompareFrom(_, _, _)
CompareFrom(a, b, k) ==
    IF k > NumBytes THEN 0
    ELSE IF a[k] > b[k] THEN 1
    ELSE IF a[k] < b[k] THEN -1
    ELSE CompareFrom(a, b, k + 1)

compareIP(a, b) == CompareFrom(a, b, 1)

\* The number of leading one bits of byte k in a mask of `ones` ones.
MaskBitsOfByte(ones, k) ==
    LET left == ones - (k - 1) * ByteBits
    IN  IF left <= 0 THEN 0 ELSE IF left >= ByteBits THEN ByteBits ELSE left

\* ip.Mask(ipNet.Mask): the bytes and-ed with the mask.
ApplyMask(ip, ones) ==
    [k \in 1..NumBytes |->
        LET low == Pow2(ByteBits - MaskBitsOfByte(ones, k))
        IN  (ip[k] \div low) * low]

\* ipNet.Contains(ip) for the network of address nw and `ones` mask bits.
Contains(nw, ones, ip) == ApplyMask(ip, ones) = nw

\* ------------------------------------------------------- lines (ipfile.go)
\* A trimmed line, by what the parsers can tell of it: kind is the syntax that
\* ParseIPFile dispatches on; sform and eform say what net.ParseIP makes of the
\* address texts ("v4": an IPv4 address, "v6": an IPv6 address, "junk": nil);
\* nparts is the number of parts strings.Split(line, "-") gives; prefix is
\* the prefix length of a CIDR line.
Line(kind, nparts, sform, start, eform, end, prefix) ==
    [kind |-> kind, nparts |-> nparts, sform |-> sform, start |-> start,
     eform |-> eform, end |-> end, prefix |-> prefix]

NoLine == Line("none", 0, "junk", ZeroAddr, "junk", ZeroAddr, 0)

OtherForms == {"v6", "junk"}

CidrLines ==
    {Line("cidr", 1, "v4", a, "junk", ZeroAddr, n) : a \in Addrs, n \in 0..AddrBits}
    \cup {Line("cidr", 1, f, ZeroAddr, "junk", ZeroAddr, 0) : f \in OtherForms}

RangeLines ==
    {Line("range", 2, "v4", a, "v4", b, 0) : a \in Addrs, b \in Addrs}
    \cup {Line("range", 2, f, ZeroAddr, "v4", ZeroAddr, 0) : f \in OtherForms}
    \cup {Line("range", 2, "v4", ZeroAddr, f, ZeroAddr, 0) : f \in OtherForms}
    \cup {Line("range", 3, "v4", ZeroAddr, "v4", ZeroAddr, 0)}

\* -------------------------------------------- parseCIDR and parseIPRange
ExIdle ==
    [pc |-> "idle", fn |-> "none", current |-> ZeroAddr, netIP |-> ZeroAddr,
     ones |-> 0, endBytes |-> ZeroAddr, count |-> 0, ips |-> NilSlice,
     err |-> "none"]

ExCall(fn) == [ExIdle EXCEPT !.pc = "entry", !.fn = fn]

\* return nil, err
ExFail(e, err) == [e EXCEPT !.pc = "ret", !.ips = NilSlice, !.err = err]

\* The number of addresses of a block of `ones` mask bits (line 29).
BlockSize(ones) == Pow2(AddrBits - ones)

\* Line 88: endVal - startVal + 1 in unsigned arithmetic of the address width,
\* then widened.
RangeCount(startVal, endVal) == (endVal - startVal + 1) % Pow2(AddrBits)

\* Lines 30 and 89: the guard.
TooLarge(n) == n > ExpansionGuard

\* The list is followed no further than one element past the guard: a loop
\* that is still appending then is recorded as running away.
ListCap == ExpansionGuard + 1

\* Lines 14-40 of parseCIDR: parsing, the IPv4 tests, the guard, the start.
CidrEnter(e, ln) ==
    IF ln.sform = "junk" THEN ExFail(e, "InvalidCIDR")
    ELSE IF ln.sform = "v6" THEN ExFail(e, "IPv4Only")
    ELSE IF TooLarge(BlockSize(ln.prefix)) THEN ExFail(e, "RangeTooLarge")
    ELSE [e EXCEPT !.pc = "loop", !.ones = ln.prefix,
                   !.netIP = ApplyMask(ln.start, ln.prefix),
                   !.current = ApplyMask(ln.start, ln.prefix),
                   !.count = BlockSize(ln.prefix),
                   !.ips = EmptySlice]

\* Lines 61-95 of parseIPRange: the split, parsing, the IPv4 tests, the order
\* test, the guard, the start.
RangeEnter(e, ln) ==
    IF ln.nparts # 2 THEN ExFail(e, "InvalidRangeSyntax")
    ELSE IF ln.sform = "junk" \/ ln.eform = "junk" THEN ExFail(e, "InvalidAddress")
    ELSE IF ln.sform = "v6" \/ ln.eform = "v6" THEN ExFail(e, "IPv4Only")
    ELSE IF compareIP(ln.start, ln.end) > 0 THEN ExFail(e, "InconsistentRange")
    ELSE IF TooLarge(RangeCount(ToUint(ln.start), ToUint(ln.end)))
         THEN ExFail(e, "RangeTooLarge")
    ELSE [e EXCEPT !.pc = "loop", !.endBytes = ln.end, !.current = ln.start,
                   !.count = RangeCount(ToUint(ln.start), ToUint(ln.end)),
                   !.ips = EmptySlice]

\* The loop test of parseCIDR (line 42) and of parseIPRange (line 98).
LoopContinues(e) ==
    IF e.fn = "parseCIDR"
    THEN Contains(e.netIP, e.ones, e.current)
    ELSE compareIP(e.current, e.endBytes) <= 0

\* One iteration: the test, the append, incIP; or the return of the list.
ExIterate(e) ==
    IF ~LoopContinues(e) THEN [e EXCEPT !.pc = "ret"]
    ELSE IF Len(e.ips.elems) >= ListCap THEN [e EXCEPT !.pc = "overrun"]
    ELSE [e EXCEPT !.ips = SliceAppend(@, e.current), !.current = incIP(e.current)]

ExpandEntry ==
    /\ ex.pc = "entry"
    /\ ex' = IF ex.fn = "parseCIDR" THEN CidrEnter(ex, line) ELSE RangeEnter(ex, line)
    /\ UNCHANGED <<call, cfg, sessVars, campVars, evalVars, clsVars, line, file, pf>>

ExpandLoop ==
    /\ ex.pc = "loop"
    /\ ex' = ExIterate(ex)
    /\ UNCHANGED <<call, cfg, sessVars, campVars, evalVars, clsVars, line, file, pf>>

\* ---------------------------------------------------- ParseIPFile (ipfile.go)
\* An entry of the returned list: the text of an address and what it denotes.
Entry(form, addr) == [form |-> form, addr |-> addr]

MaxAddr == [k \in 1..NumBytes |-> ByteMod - 1]

\* Lines without '/' and without '-'.
BlankLine == Line("blank", 1, "junk", ZeroAddr, "junk", ZeroAddr, 0)

CommentLine == Line("comment", 1, "junk", ZeroAddr, "junk", ZeroAddr, 0)

SingleLines ==
    {Line("single", 1, "v4", a, "junk", ZeroAddr, 0) : a \in {ZeroAddr, MaxAddr}}
    \cup {Line("single", 1, f, ZeroAddr, "junk", ZeroAddr, 0) : f \in OtherForms}

FileLines ==
    {BlankLine, CommentLine}
    \cup SingleLines
    \cup {Line("cidr", 1, "v4", MaxAddr, "junk", ZeroAddr, AddrBits - 1),
          Line("cidr", 1, "v4", ZeroAddr, "junk", ZeroAddr, 0),
          Line("range", 2, "v4", ZeroAddr, "v4", incIP(ZeroAddr), 0),
          Line("range", 2, "v4", MaxAddr, "v4", ZeroAddr, 0)}

Files == SeqsUpTo(FileLines, MaxLines)

PfIdle == [pc |-> "idle", lineNum |-> 0, ipList |-> NilSlice, err |-> "none"]

PfStart == [PfIdle EXCEPT !.pc = "scan"]

\* return nil, err
PfFail(st, err) == [st EXCEPT !.pc = "ret", !.ipList = NilSlice, !.err = err]

\* append(ipList, ips...): appending nothing to a nil slice leaves it nil.
SliceConcat(s, elems) ==
    IF elems = <<>> THEN s ELSE [isNil |-> FALSE, elems |-> s.elems \o elems]

\* Line 53: net.ParseIP(line) != nil.
SingleAccepted(ln) == ln.sform # "junk"

\* Lines 27-57: the next line is read; a blank or comment line is skipped, a
\* line with '/' or '-' is handed to its parser, any other line is tested by
\* net.ParseIP and appended as it stands.  Lines 63-68 at the end of the file.
FileScan ==
    /\ pf.pc = "scan"
    /\ IF pf.lineNum >= Len(file)
       THEN pf' = [pf EXCEPT !.pc = "ret"] /\ UNCHANGED <<line, ex>>
       ELSE LET ln == file[pf.lineNum + 1]
                st == [pf EXCEPT !.lineNum = @ + 1]
            IN  /\ line' = ln
                /\ IF ln.kind \in {"blank", "comment"}
                   THEN pf' = st /\ UNCHANGED ex
                   ELSE IF ln.kind = "cidr"
                   THEN pf' = [st EXCEPT !.pc = "call"] /\ ex' = ExCall("parseCIDR")
                   ELSE IF ln.kind = "range"
                   THEN pf' = [st EXCEPT !.pc = "call"] /\ ex' = ExCall("parseIPRange")
                   ELSE /\ UNCHANGED ex
                        /\ pf' = IF SingleAccepted(ln)
                                 THEN [st EXCEPT !.ipList =
                                          SliceConcat(@, <<Entry(ln.sform, ln.start)>>)]
                                 ELSE PfFail(st, "InvalidAddress")
    /\ UNCHANGED <<call, cfg, sessVars, campVars, evalVars, clsVars, file>>

\* Lines 41-50 and 60: the parser has returned; its error ends the batch, its
\* list is appended.
FileResume ==
    /\ pf.pc = "call"
    /\ ex.pc = "ret"
    /\ pf' = IF ex.err # "none"
             THEN PfFail(pf, ex.err)
             ELSE [pf EXCEPT !.pc = "scan",
                             !.ipList = SliceConcat(@,
                                 [k \in 1..Len(ex.ips.elems) |->
                                     Entry("v4", ex.ips.elems[k])])]
    /\ ex' = ExIdle
    /\ UNCHANGED <<call, cfg, sessVars, campVars, evalVars, clsVars, line, file>>

\* -------------------------------------------------------- specifications
NoReturn == [successIPs |-> NilSlice, failedIPs |-> NilSlice, err |-> FALSE]

SessionIdle ==
    /\ ips = <<>> /\ concurrency = 0
    /\ mainPc = "idle" /\ idx = 1 /\ sem = 0 /\ semClosed = FALSE /\ wg = 0
    /\ resultChan = <<>> /\ chanClosed = FALSE /\ closerPc = "none"
    /\ taskPc = [t \in CampIds |-> "none"]
    /\ successIPs = NilSlice /\ failedIPs = NilSlice /\ ret = NoReturn
    /\ panicked = FALSE

CampaignIdle == camp = [c \in CampIds |-> CampIdle] /\ run = 1 /\ live = NoRecord

EvalIdleInit == results = <<>> /\ ev = EvalIdle /\ evFirst = EvalIdle

ClassifyIdle ==
    signal = FALSE /\ output = <<>> /\ classified = "idle" /\ killed = FALSE

ExpandIdle == line = NoLine /\ ex = ExIdle /\ file = <<>> /\ pf = PfIdle

InitSession ==
    /\ call = "session"
    /\ ips \in InputLists
    /\ concurrency \in -1..MaxConcurrency
    /\ cfg \in SessionPolicies
    /\ mainPc = "entry" /\ idx = 1 /\ sem = 0 /\ semClosed = FALSE /\ wg = 0
    /\ resultChan = <<>> /\ chanClosed = FALSE /\ closerPc = "none"
    /\ taskPc = [t \in CampIds |-> "none"]
    /\ successIPs = NilSlice /\ failedIPs = NilSlice /\ ret = NoReturn
    /\ panicked = FALSE
    /\ CampaignIdle /\ EvalIdleInit /\ ClassifyIdle /\ ExpandIdle

InitCampaign ==
    /\ call = "campaign"
    /\ cfg \in CampaignPolicies
    /\ camp = [c \in CampIds |-> IF c = 1 THEN CampEntry ELSE CampIdle]
    /\ run = 1 /\ live = NoRecord
    /\ SessionIdle /\ EvalIdleInit /\ ClassifyIdle /\ ExpandIdle

InitReplay ==
    /\ call = "replay"
    /\ cfg \in ReplayPolicies
    /\ results \in SeqsUpTo(BOOLEAN, MaxAttemptsBound)
    /\ ev = EvalStart /\ evFirst = EvalIdle
    /\ camp = [c \in CampIds |-> CampIdle] /\ run = 1 /\ live = NoRecord
    /\ SessionIdle /\ ClassifyIdle /\ ExpandIdle

InitClassify ==
    /\ call = "classify"
    /\ cfg = defaultPingConfig
    /\ signal \in BOOLEAN
    /\ killed \in {k \in BOOLEAN : k => ~signal}
    /\ output \in SeqsUpTo(Tokens, MaxTextLen)
    /\ classified = "pending"
    /\ SessionIdle /\ CampaignIdle /\ EvalIdleInit /\ ExpandIdle

\* pingWithRetry is driven by a sequence of outcomes at least maxAttempts long,
\* then evaluatePingSequence is applied to the same sequence and parameters.
InitAgree ==
    /\ call = "agree"
    /\ cfg \in CampaignPolicies
    /\ results \in {q \in SeqsUpTo(BOOLEAN, MaxAttemptsBound) : Len(q) >= cfg.MaxAttempts}
    /\ camp = [c \in CampIds |-> IF c = 1 THEN CampEntry ELSE CampIdle]
    /\ run = 1 /\ live = NoRecord
    /\ ev = EvalStart /\ evFirst = EvalIdle
    /\ SessionIdle /\ ClassifyIdle /\ ExpandIdle

InitExpand ==
    /\ call = "expand"
    /\ cfg = defaultPingConfig
    /\ line \in CidrLines \cup RangeLines
    /\ ex = ExCall(IF line.kind = "cidr" THEN "parseCIDR" ELSE "parseIPRange")
    /\ file = <<>> /\ pf = PfIdle
    /\ SessionIdle /\ CampaignIdle /\ EvalIdleInit /\ ClassifyIdle

InitFile ==
    /\ call = "file"
    /\ cfg = defaultPingConfig
    /\ file \in Files
    /\ pf = PfStart
    /\ line = NoLine /\ ex = ExIdle
    /\ SessionIdle /\ CampaignIdle /\ EvalIdleInit /\ ClassifyIdle

CampaignStep(c) == PingEntry(c) \/ PingAttempt(c) \/ PingSleep(c)

MainStep == MainEntry \/ MainRange \/ MainAcquire \/ MainCollect

CloserStep == CloserWait \/ CloserClose

TaskStep(t) == TaskCall(t) \/ CampaignStep(t) \/ TaskSend(t) \/ TaskRelease(t) \/ TaskDone(t)

NextSession == MainStep \/ CloserStep \/ \E t \in CampIds : TaskStep(t)

NextCampaign ==
    \/ \E c \in CampIds : CampaignStep(c)
    \/ Rerun
    \/ EvalIterate
    \/ EvalAgain

NextClassify == ClassifyAttempt

NextAgree == (\E c \in CampIds : CampaignStep(c)) \/ EvalIterate

NextExpand == ExpandEntry \/ ExpandLoop

NextFile == FileScan \/ FileResume \/ ExpandEntry \/ ExpandLoop

SpecSession == InitSession /\ [][NextSession]_vars

\* The Go scheduler runs every runnable goroutine eventually; the weaker
\* assumption that some runnable goroutine runs is all that is stated here.
FairSession == SpecSession /\ WF_vars(NextSession)

SpecCampaign == (InitCampaign \/ InitReplay) /\ [][NextCampaign]_vars

SpecClassify == InitClassify /\ [][NextClassify]_vars

SpecAgree == InitAgree /\ [][NextAgree]_vars

SpecExpand == InitExpand /\ [][NextExpand]_vars

SpecFile == InitFile /\ [][NextFile]_vars

Spec == SpecSession

\* ------------------------------------------------- session properties
\* Tasks inside pingRunner, and tasks holding a semaphore slot.
InFlight == {t \in CampIds : taskPc[t] = "running" /\ camp[t].pc # "ret"}

Holders == {t \in CampIds : taskPc[t] \in {"start", "running", "release"}}

NoDuplicates(q) == \A j, k \in 1..Len(q) : q[j] = q[k] => j = k

\* C1: with concurrency K >= 1, at most K tasks are inside pingRunner in every
\* reachable state; every such task holds a slot acquired before its campaign
\* began, the slots held are exactly the elements buffered in the semaphore,
\* and a slot is given back only by a task whose campaign has ended.
C1_ConcurrencyBound ==
    (call = "session" /\ concurrency >= 1) =>
        /\ Cardinality(InFlight) <= concurrency
        /\ InFlight \subseteq Holders
        /\ sem = Cardinality(Holders)
        /\ sem <= concurrency

\* C1 witness: the ceiling is reached while the launching loop waits for a slot.
C1_Witness ==
    /\ call = "session" /\ concurrency >= 1
    /\ Cardinality(InFlight) = concurrency
    /\ mainPc = "acquire"
    /\ sem = concurrency

\* C2: when the session returns, the reachable and unreachable collections are
\* disjoint, neither holds an address twice, and their union is the set of
\* input addresses, for every input list, lists with repeated addresses
\* included.
C2_PartitionOfInputSet ==
    (call = "session" /\ mainPc = "returned" /\ ~ret.err) =>
        /\ Range(ret.successIPs.elems) \cap Range(ret.failedIPs.elems) = {}
        /\ NoDuplicates(ret.successIPs.elems)
        /\ NoDuplicates(ret.failedIPs.elems)
        /\ Range(ret.successIPs.elems) \cup Range(ret.failedIPs.elems) = Range(ips)

\* C3: an admitted session (concurrency > 0) always returns, it returns only
\* after every task has finished, and no goroutine ever panics (no send on a
\* closed channel, no negative wait group counter).
C3_SessionCompletes ==
    /\ [](~panicked)
    /\ []((call = "session" /\ mainPc = "returned" /\ ~ret.err)
            => \A t \in TaskIds : taskPc[t] = "done")
    /\ ((call = "session" /\ concurrency > 0)
            ~> (mainPc = "returned" /\ ~ret.err))

\* C3 witness: a session of several addresses with one slot has returned, all
\* its tasks done and the result channel closed and drained.
C3_Witness ==
    /\ call = "session" /\ concurrency = 1 /\ Len(ips) >= 2
    /\ mainPc = "returned" /\ ~ret.err
    /\ \A t \in TaskIds : taskPc[t] = "done"
    /\ chanClosed /\ resultChan = <<>> /\ closerPc = "done"
    /\ Len(ret.successIPs.elems) + Len(ret.failedIPs.elems) = Len(ips)

\* No goroutine was ever launched and no campaign ever entered.
NothingLaunched ==
    /\ \A t \in CampIds : taskPc[t] = "none" /\ camp[t] = CampIdle
    /\ wg = 0 /\ sem = 0 /\ closerPc = "none" /\ resultChan = <<>>

\* C4: with concurrency <= 0 the call returns an error and nil collections and
\* launches no task, for every list; with concurrency > 0 and an empty list it
\* returns two empty collections and no error, launching no task.
C4_EarlyReturns ==
    call = "session" =>
        /\ (concurrency <= 0 \/ ips = <<>>) => NothingLaunched
        /\ (concurrency <= 0 \/ ips = <<>>) => mainPc \in {"entry", "returned"}
        /\ (mainPc = "returned" /\ concurrency <= 0) =>
               ret = [successIPs |-> NilSlice, failedIPs |-> NilSlice, err |-> TRUE]
        /\ (mainPc = "returned" /\ concurrency > 0 /\ ips = <<>>) =>
               ret = [successIPs |-> EmptySlice, failedIPs |-> EmptySlice,
                      err |-> FALSE]

\* C4 witness: a non-empty list was rejected for concurrency zero.
C4_Witness ==
    /\ call = "session" /\ concurrency = 0 /\ Len(ips) = MaxIPs
    /\ mainPc = "returned" /\ ret.err /\ NothingLaunched

\* ------------------------------------------------ campaign properties
Max0(n) == IF n > 0 THEN n ELSE 0

Last(h) == h[Len(h)]

RECURSIVE TrailingFails(_)
TrailingFails(h) ==
    IF h = <<>> \/ Last(h) THEN 0 ELSE 1 + TrailingFails(SubSeq(h, 1, Len(h) - 1))

\* The outcomes evaluatePingSequence has consumed so far.
Consumed == SubSeq(results, 1, ev.attempts)

\* An activation of pingWithRetry that is past its entry.
Entered(st) == st.pc \in {"loop", "sleep", "ret"}

\* The sleeps a returned activation has taken are those between its attempts.
PacedBetweenAttempts(st) ==
    st.sleeps = IF st.interval > 0 /\ st.attempts >= 1 THEN st.attempts - 1 ELSE 0

\* C5 as stated: the attempts taken never exceed maxAttempts, in pingWithRetry
\* and in evaluatePingSequence, for every policy.
C5_AttemptsAtMostMaxAttempts ==
    call \in {"campaign", "replay"} =>
        /\ \A c \in CampIds : Entered(camp[c]) => camp[c].attempts <= cfg.MaxAttempts
        /\ ev.pc = "ret" => ev.attempts <= cfg.MaxAttempts

\* C5 amended: the attempts taken never exceed max(maxAttempts, 0): a negative
\* maxAttempts yields zero attempts.
C5_AttemptsBounded ==
    call \in {"campaign", "replay"} =>
        /\ \A c \in CampIds : camp[c].attempts <= Max0(cfg.MaxAttempts)
        /\ ev.attempts <= Max0(cfg.MaxAttempts)

\* C5 witness: a campaign has used every attempt the policy permits.
C5_Witness ==
    /\ call = "campaign" /\ run = 1 /\ camp[1].pc = "ret"
    /\ cfg.MaxAttempts = MaxAttemptsBound
    /\ camp[1].attempts = cfg.MaxAttempts

\* The general rule of C6: while a campaign can still take an attempt or a
\* delay its success count is below the threshold, and an activation whose
\* last attempt met the threshold returned reachable without a further delay.
EarlyExitOnSuccess ==
    /\ \A c \in CampIds :
          /\ camp[c].pc \in {"loop", "sleep"} =>
                 camp[c].successes < camp[c].successNeed
          /\ (camp[c].pc = "ret" /\ camp[c].attempts >= 1 /\ Last(camp[c].hist)
                 /\ camp[c].successes >= camp[c].successNeed) =>
                 camp[c].result /\ PacedBetweenAttempts(camp[c])
    /\ (ev.pc = "range" /\ ev.successes >= 1) => ev.successes < cfg.SuccessNeed
    /\ (ev.pc = "ret" /\ ev.attempts >= 1 /\ Last(Consumed)
           /\ ev.successes >= cfg.SuccessNeed) => ev.result

\* C6 as stated: the general rule, and outcomes [true, true] with
\* successThreshold 2 yield reachable after exactly 2 attempts whatever
\* maxAttempts >= 1 is.
C6_TwoSuccessesWhateverMaxAttempts ==
    /\ EarlyExitOnSuccess
    /\ (call = "campaign" /\ run = 1 /\ camp[1].pc = "ret" /\ cfg.SuccessNeed = 2
           /\ cfg.MaxAttempts >= 1
           /\ (IsPrefix(camp[1].hist, <<TRUE, TRUE>>)
               \/ IsPrefix(<<TRUE, TRUE>>, camp[1].hist))) =>
           camp[1].result /\ camp[1].attempts = 2
    /\ (call = "replay" /\ ev.pc = "ret" /\ cfg.SuccessNeed = 2
           /\ cfg.MaxAttempts >= 1 /\ IsPrefix(<<TRUE, TRUE>>, results)) =>
           ev.result /\ ev.attempts = 2

\* C6 amended: the general rule, and outcomes [true, true] with
\* successThreshold 2 yield reachable after exactly 2 attempts for every
\* maxAttempts >= 2.
C6_EarlyExitOnSuccess ==
    /\ EarlyExitOnSuccess
    /\ (call = "campaign" /\ Entered(camp[1]) /\ cfg.SuccessNeed = 2
           /\ IsPrefix(<<TRUE, TRUE>>, camp[1].hist)) =>
           camp[1].pc = "ret" /\ camp[1].result /\ camp[1].attempts = 2
    /\ (call = "replay" /\ ev.pc = "ret" /\ cfg.SuccessNeed = 2
           /\ cfg.MaxAttempts >= 2 /\ IsPrefix(<<TRUE, TRUE>>, results)) =>
           ev.result /\ ev.attempts = 2

\* C6 witness: two successes ended a campaign that could have gone on.
C6_Witness ==
    /\ call = "campaign" /\ run = 1 /\ camp[1].pc = "ret"
    /\ cfg.SuccessNeed = 2 /\ cfg.MaxAttempts = MaxAttemptsBound
    /\ cfg.AttemptInterval = 1
    /\ camp[1].hist = <<TRUE, TRUE>> /\ camp[1].result /\ camp[1].sleeps = 1

\* C7: the failure counter is the length of the run of failures that ends the
\* outcomes so far (a success resets it, a failure increments it); while a
\* campaign can still take an attempt the counter is below the threshold; an
\* activation whose last attempt brought it to the threshold returned
\* unreachable; outcomes [false, false, false] with threshold 3 yield
\* unreachable after exactly 3 attempts.
C7_EarlyExitOnFailure ==
    /\ \A c \in CampIds :
          /\ Entered(camp[c]) => camp[c].consecFails = TrailingFails(camp[c].hist)
          /\ camp[c].pc \in {"loop", "sleep"} =>
                 camp[c].consecFails < camp[c].consecFailStop
          /\ (camp[c].pc = "ret" /\ camp[c].attempts >= 1 /\ ~Last(camp[c].hist)
                 /\ camp[c].consecFails >= camp[c].consecFailStop) =>
                 ~camp[c].result /\ PacedBetweenAttempts(camp[c])
    /\ ev.pc \in {"range", "ret"} => ev.consecFails = TrailingFails(Consumed)
    /\ (ev.pc = "range" /\ ev.consecFails >= 1) =>
           ev.consecFails < cfg.ConsecutiveFailStop
    /\ (call = "campaign" /\ Entered(camp[1]) /\ cfg.ConsecutiveFailStop = 3
           /\ IsPrefix(<<FALSE, FALSE, FALSE>>, camp[1].hist)) =>
           camp[1].pc = "ret" /\ ~camp[1].result /\ camp[1].attempts = 3
    /\ (call = "replay" /\ ev.pc = "ret" /\ cfg.ConsecutiveFailStop = 3
           /\ cfg.MaxAttempts >= 3 /\ IsPrefix(<<FALSE, FALSE, FALSE>>, results)) =>
           ~ev.result /\ ev.attempts = 3

\* C7 witness: three failures ended a campaign before maxAttempts was used up.
C7_Witness ==
    /\ call = "campaign" /\ run = 1 /\ camp[1].pc = "ret"
    /\ cfg.ConsecutiveFailStop = 3 /\ cfg.MaxAttempts = MaxAttemptsBound
    /\ camp[1].hist = <<FALSE, FALSE, FALSE>> /\ ~camp[1].result

\* The last attempt of the activation gave an early verdict.
EarlyVerdict(st) ==
    /\ st.attempts >= 1
    /\ \/ Last(st.hist) /\ st.successes >= st.successNeed
       \/ ~Last(st.hist) /\ st.consecFails >= st.consecFailStop

EvalEarlyVerdict ==
    /\ ev.attempts >= 1
    /\ \/ Last(Consumed) /\ ev.successes >= cfg.SuccessNeed
       \/ ~Last(Consumed) /\ ev.consecFails >= cfg.ConsecutiveFailStop

ExampleExhaustion == <<TRUE, FALSE, FALSE, FALSE, FALSE>>

\* C8: a campaign that used maxAttempts attempts without an early verdict
\* returns reachable iff successes >= successThreshold, with no delay after
\* the final attempt; outcomes [true, false, false, false, false] with
\* threshold 2, the fail stop disabled and maxAttempts 5 yield unreachable
\* after exactly 5 attempts.
C8_ExhaustionRule ==
    /\ \A c \in CampIds :
          (call = "campaign" /\ camp[c].pc = "ret" /\ cfg.MaxAttempts >= 1
              /\ camp[c].attempts = cfg.MaxAttempts /\ ~EarlyVerdict(camp[c])) =>
              /\ camp[c].result = (camp[c].successes >= camp[c].successNeed)
              /\ PacedBetweenAttempts(camp[c])
    /\ (call = "replay" /\ ev.pc = "ret" /\ ev.attempts = cfg.MaxAttempts
           /\ ~EvalEarlyVerdict) =>
           ev.result = (ev.successes >= cfg.SuccessNeed)
    /\ (call = "campaign" /\ Entered(camp[1]) /\ cfg.MaxAttempts = 5
           /\ cfg.SuccessNeed = 2 /\ cfg.ConsecutiveFailStop <= 0
           /\ IsPrefix(ExampleExhaustion, camp[1].hist)) =>
           camp[1].pc = "ret" /\ ~camp[1].result /\ camp[1].attempts = 5
    /\ (call = "replay" /\ ev.pc = "ret" /\ cfg.MaxAttempts = 5
           /\ cfg.SuccessNeed = 2 /\ cfg.ConsecutiveFailStop = MaxInt32
           /\ IsPrefix(ExampleExhaustion, results)) =>
           ~ev.result /\ ev.attempts = 5

\* C8 witness: the example campaign ran out of attempts, paced by four sleeps.
C8_Witness ==
    /\ call = "campaign" /\ run = 1 /\ camp[1].pc = "ret"
    /\ cfg = Policy(5, 2, 0, 1)
    /\ camp[1].hist = ExampleExhaustion
    /\ ~camp[1].result /\ camp[1].attempts = 5 /\ camp[1].sleeps = 4

RulesSay(sig, text) ==
    LET low == ToLower(text)
        counts == ReceivedMatches(low) \cup PacketsReceivedMatches(low)
        losses == LossMatches(low)
    IN  \/ sig
        \/ IF counts # {} THEN low[Leftmost(counts)] # "0"
           ELSE IF losses # {} THEN low[Leftmost(losses)] = "0%"
           ELSE HasIndicator(low)

\* C10: a positive signal is success; otherwise a received count decides
\* (success iff non-zero); else a loss percentage decides (success iff zero);
\* else an indicator decides. A zero received count is a failure even when
\* the text also holds an indicator or a 0% loss figure.
C10_OrderedRules ==
    (call = "classify" /\ classified # "pending") =>
        (classified = "ok") = RulesSay(signal, output)

\* ---------------------------------------------- expansion properties
\* A list of consecutive addresses: n of them, the first of value `first`.
Consecutive(elems, first, n) ==
    /\ Len(elems) = n
    /\ \A k \in 1..Len(elems) : ToUint(elems[k]) = first + k - 1

\* The value of the network address of a/n and of its broadcast address.
NetworkOf(a, n) == ToUint(a) - (ToUint(a) % BlockSize(n))

BroadcastOf(a, n) == NetworkOf(a, n) + BlockSize(n) - 1

\* parseCIDR has returned on a line that net.ParseCIDR takes as IPv4.
CidrReturned == ex.fn = "parseCIDR" /\ ex.pc = "ret" /\ line.sform = "v4"

\* The listing C11 promises for the line.
CidrListing ==
    /\ ex.err = "none"
    /\ Consecutive(ex.ips.elems, NetworkOf(line.start, line.prefix),
                   BlockSize(line.prefix))
    /\ ToUint(Last(ex.ips.elems)) = BroadcastOf(line.start, line.prefix)

\* C11 as stated: every valid block A/N, whatever N, is listed in full, in
\* ascending order, from its network address to its broadcast address.
C11_EveryPrefixListed == CidrReturned => CidrListing

\* C11: every valid block A/N of at most ExpansionGuard addresses is listed
\* in full, in ascending order, from its network address to its broadcast
\* address, also when it ends at the highest address; a larger block is
\* refused as too large; parseCIDR never runs past its block.
C11_PrefixesWithinGuardListed ==
    /\ CidrReturned =>
           IF BlockSize(line.prefix) <= ExpansionGuard
           THEN CidrListing
           ELSE ex.err = "RangeTooLarge" /\ ex.ips = NilSlice
    /\ ex.fn = "parseCIDR" => ex.pc # "overrun"

\* C11 witness: a block of several addresses that ends at the highest
\* address has been listed.
C11_Witness ==
    /\ call = "expand" /\ CidrReturned /\ ex.err = "none"
    /\ Len(ex.ips.elems) >= 2
    /\ Last(ex.ips.elems) = MaxAddr

\* parseIPRange is at work on, or has returned from, a line "start-end" of
\* two IPv4 addresses.
RangeCalled ==
    /\ ex.fn = "parseIPRange" /\ ex.pc # "entry"
    /\ line.nparts = 2 /\ line.sform = "v4" /\ line.eform = "v4"

\* The number of addresses from start to end, as an integer.
TrueCount == ToUint(line.end) - ToUint(line.start) + 1

\* C12: a range start-end with start <= end (of no more addresses than the
\* guard allows) never has parseIPRange run past its end, and is returned
\* without error as the end - start + 1 addresses from start to end in
\* ascending order, also when end is the highest address.
C12_RangeListed ==
    (RangeCalled /\ TrueCount >= 1 /\ TrueCount <= ExpansionGuard) =>
        /\ ex.pc # "overrun"
        /\ ex.pc = "ret" =>
               /\ ex.err = "none"
               /\ Consecutive(ex.ips.elems, ToUint(line.start), TrueCount)

\* The line in hand is a valid block or range of more addresses than the
\* guard allows.
OverGuard ==
    \/ /\ ex.fn = "parseCIDR" /\ line.sform = "v4"
       /\ BlockSize(line.prefix) > ExpansionGuard
    \/ RangeCalled /\ TrueCount > ExpansionGuard

\* C13: a block or range of more addresses than the guard allows is refused
\* as too large before any address is listed, whatever its start and end,
\* the range from the lowest to the highest address included; a list that
\* is returned holds no more addresses than the guard allows.
C13_GuardRefusesEveryLargeExpansion ==
    /\ (OverGuard /\ ex.pc # "entry") =>
           /\ ex.pc = "ret"
           /\ ex.err = "RangeTooLarge"
           /\ ex.ips = NilSlice
    /\ (ex.pc = "ret" /\ ex.err = "none") => Len(ex.ips.elems) <= ExpansionGuard

\* C14: a range whose start is above its end is refused as inconsistent, with
\* no list, before the guard is consulted and before anything is listed.
C14_InconsistentRangeRefused ==
    (RangeCalled /\ ToUint(line.start) > ToUint(line.end)) =>
        /\ ex.pc = "ret"
        /\ ex.err = "InconsistentRange"
        /\ ex.ips = NilSlice

\* C14 witness: a range whose start is above its end, and whose count as the
\* guard would compute it is too large, has been refused as inconsistent.
C14_Witness ==
    /\ call = "expand" /\ RangeCalled /\ ex.pc = "ret"
    /\ ToUint(line.start) > ToUint(line.end)
    /\ TooLarge(RangeCount(ToUint(line.start), ToUint(line.end)))
    /\ ex.err = "InconsistentRange"

\* ------------------------------------------ normalisation properties
\* The outcomes of h hold a success.
HasSuccess(h) == \E k \in 1..Len(h) : h[k]

\* C15: with a success threshold below 1 the campaign is that of threshold 1:
\* it goes on while every attempt has failed, never returns reachable then,
\* and returns reachable at its first successful attempt; with maxAttempts
\* <= 0 it returns unreachable without an attempt, whatever the other fields.
C15_PolicyNormalized ==
    \A c \in CampIds :
        (call = "campaign" /\ Entered(camp[c])) =>
            /\ cfg.MaxAttempts <= 0 =>
                   /\ camp[c].pc = "ret"
                   /\ ~camp[c].result
                   /\ camp[c].attempts = 0
            /\ (cfg.MaxAttempts > 0 /\ cfg.SuccessNeed < 1) =>
                   /\ camp[c].successNeed = 1
                   /\ HasSuccess(camp[c].hist) =>
                          /\ Last(camp[c].hist)
                          /\ ~HasSuccess(SubSeq(camp[c].hist, 1, camp[c].attempts - 1))
                          /\ camp[c].pc = "ret"
                          /\ camp[c].result
                   /\ (camp[c].pc = "ret" /\ camp[c].result) => HasSuccess(camp[c].hist)

\* C15 witness: under a threshold below 1, a campaign whose first attempt
\* failed has returned reachable at its second.
C15_Witness ==
    /\ call = "campaign" /\ run = 1
    /\ cfg.SuccessNeed < 1 /\ cfg.MaxAttempts >= 2
    /\ camp[1].pc = "ret" /\ camp[1].result
    /\ camp[1].hist = <<FALSE, TRUE>>

\* C20: the success counter never exceeds the normalised threshold; reachable
\* is returned only at the attempt that brings the counter to the threshold;
\* a campaign that has taken all its attempts without an early verdict
\* returns unreachable.
C20_SuccessesCapped ==
    \A c \in CampIds :
        (call = "campaign" /\ Entered(camp[c]) /\ cfg.MaxAttempts > 0) =>
            /\ camp[c].successes <= camp[c].successNeed
            /\ camp[c].successNeed = NormalizeSuccessNeed(cfg.SuccessNeed)
            /\ (camp[c].pc = "ret" /\ camp[c].result) =>
                   /\ Last(camp[c].hist)
                   /\ camp[c].successes = camp[c].successNeed
            /\ (camp[c].pc # "ret") => camp[c].successes < camp[c].successNeed
            /\ (/\ camp[c].pc = "ret"
                /\ camp[c].attempts = camp[c].maxRetries
                /\ ~EarlyVerdict(camp[c])) => ~camp[c].result

\* C20 witness: a campaign has taken all its attempts, some of them
\* successful, without an early verdict, and has returned unreachable.
C20_Witness ==
    /\ call = "campaign" /\ run = 1
    /\ camp[1].pc = "ret" /\ ~camp[1].result
    /\ camp[1].attempts = camp[1].maxRetries
    /\ camp[1].attempts >= 3
    /\ camp[1].successes >= 1
    /\ ~EarlyVerdict(camp[1])

\* ------------------------------------------------- timeout properties
\* C17: an attempt whose probe was cut off by its timeout is counted as a
\* failed attempt, whatever text the probe had written.
C17_TimeoutCountsAsFailure ==
    (call = "classify" /\ classified # "pending" /\ killed) => classified = "fail"

\* ------------------------------------------------ agreement properties
\* Both functions have returned on the same sequence and parameters.
BothReturned == call = "agree" /\ camp[1].pc = "ret" /\ ev.pc = "ret"

\* C18: on every policy, zero and negative values included, and every
\* sequence of at least maxAttempts outcomes, pingWithRetry driven by the
\* sequence and evaluatePingSequence applied to it return the same verdict
\* after the same number of outcomes.
C18_CampaignAgreesWithReplay ==
    BothReturned =>
        /\ ev.result = camp[1].result
        /\ ev.attempts = camp[1].attempts

\* ------------------------------------------------ one task per element
\* How many times address a occurs in the sequence q.
Occurrences(q, a) == Cardinality({k \in DOMAIN q : q[k] = a})

\* The tasks that have sent their verdict.
Sent == {t \in TaskIds : taskPc[t] \in {"release", "wgdone", "done"}}

\* The addresses of the verdicts sent and not yet collected, in order.
Pending == [k \in DOMAIN resultChan |-> resultChan[k].ip]

\* C19: the tasks launched are those of the first elements of the list, one
\* per element; a task is inside pingRunner only between its start and its
\* send; every address has as many verdicts (waiting in the channel or
\* collected) as tasks of that address have sent; on return every task is
\* done, the two lists together are as long as the input and hold every
\* address as often as the input does.
C19_OneTaskPerElement ==
    call = "session" =>
        /\ \A t \in CampIds : taskPc[t] # "none" <=> (t \in TaskIds /\ t < idx)
        /\ \A t \in CampIds : camp[t].pc # "idle" => taskPc[t] = "running"
        /\ \A a \in Addresses :
               Occurrences(Pending \o successIPs.elems \o failedIPs.elems, a)
                   = Cardinality({t \in Sent : ips[t] = a})
        /\ (mainPc = "returned" /\ ~ret.err /\ ~panicked) =>
               /\ \A t \in TaskIds : taskPc[t] = "done"
               /\ resultChan = <<>>
               /\ Len(ret.successIPs.elems) + Len(ret.failedIPs.elems) = Len(ips)
               /\ \A a \in Addresses :
                      Occurrences(ret.successIPs.elems \o ret.failedIPs.elems, a)
                          = Occurrences(ips, a)

\* C19 witness: a session on a list that holds one address twice has
\* returned, one verdict of the address in each list.
C19_Witness ==
    /\ call = "session" /\ mainPc = "returned" /\ ~ret.err
    /\ Len(ips) = 2 /\ ips[1] = ips[2]
    /\ Len(ret.successIPs.elems) = 1
    /\ Len(ret.failedIPs.elems) = 1

\* ------------------------------------------------------ file properties
\* The lines of the file read so far.
LinesRead == SubSeq(file, 1, pf.lineNum)

\* A line that is neither blank nor a comment, has neither '/' nor '-', and
\* is not an IPv4 address.
BadSingle(ln) == ln.kind = "single" /\ ln.sform # "v4"

\* C16: a line with neither '/' nor '-' is taken as an address only if it is
\* an IPv4 address; once a line of any other text, an IPv6 address included,
\* has been read, the batch has failed with InvalidAddress and no list.
C16_SingleLineMustBeIPv4 ==
    (call = "file" /\ \E k \in 1..pf.lineNum : BadSingle(file[k])) =>
        /\ pf.pc = "ret"
        /\ pf.err = "InvalidAddress"
        /\ pf.ipList = NilSlice

====
